---- MODULE Spec2Model ----
(***************************************************************************)
(* Model of the token list component (TokenEventsList): the filter / sort  *)
(* / cap pipeline (filteredTokens), the persisted filter criteria          *)
(* (getSavedFilters, updateFilters) and the expansion set                  *)
(* (toggleTokenExpansion, the view toggle button).                         *)
(*                                                                         *)
(* JavaScript strings are sequences of one-character strings, so that      *)
(* toLowerCase, includes, endsWith and replace are computed, not assumed.  *)
(* A JavaScript object is a function from its own keys to values; a key    *)
(* outside the DOMAIN reads as undefined.                                  *)
(***************************************************************************)
EXTENDS Integers, Sequences, FiniteSets, TLC

VARIABLES
    tokens,          \* props.tokens: the record snapshot
    filters,         \* the filters signal: [isNull, obj]
    storage,         \* localStorage item STORAGE_KEY
    expandedTokens,  \* the expandedTokens signal: set of addresses
    prevExpanded,    \* expandedTokens before the last handler ran
    count,           \* the count option the virtualizer was created with
    crashed,         \* the pipeline threw: the component is dead
    mutated,         \* updateFilters has run at least once
    lastOp,          \* the handler that ran last
    out,             \* result of the last explicit pipeline recomputation
    scrollTop,       \* scroll offset of the scroll element
    viewportHeight,  \* height of the scroll element's viewport
    virtualizer,     \* what the virtualizer holds: sizes, offsets, window
    cards            \* the mounted detail cards, by record address

vars == <<tokens, filters, storage, expandedTokens, prevExpanded, count,
          crashed, mutated, lastOp, out, scrollTop, viewportHeight,
          virtualizer, cards>>

(***************************************************************************)
(* Bounds                                                                  *)
(***************************************************************************)
MaxTokens == 3
\* longest list given to the windowing engine
MaxItems == 10
\* most rows expanded one by one in the windowing runs
MaxExpanded == 1

(***************************************************************************)
(* Strings                                                                 *)
(***************************************************************************)
s_empty == << >>
s_age == <<"a", "g", "e">>
s_holders == <<"h", "o", "l", "d", "e", "r", "s">>
s_liquidity == <<"l", "i", "q", "u", "i", "d", "i", "t", "y">>
s_safetyScore == <<"s", "a", "f", "e", "t", "y", "S", "c", "o", "r", "e">>
s_asc == <<"_", "a", "s", "c">>
s_bogus == <<"b", "o", "g", "u", "s">>
s_desc == <<"d", "e", "s", "c">>

\* String.prototype.toLowerCase on one character
LowerChar(c) ==
    CASE c = "A" -> "a" [] c = "B" -> "b" [] c = "C" -> "c" [] c = "D" -> "d"
      [] c = "G" -> "g" [] c = "O" -> "o" [] c = "S" -> "s" [] c = "T" -> "t"
      [] c = "X" -> "x"
      [] OTHER -> c

toLowerCase(s) == [i \in 1..Len(s) |-> LowerChar(s[i])]

\* String.prototype.includes
includes(s, q) ==
    \E i \in 1..(Len(s) - Len(q) + 1) : SubSeq(s, i, i + Len(q) - 1) = q

\* String.prototype.endsWith
endsWith(s, suffix) ==
    /\ Len(s) >= Len(suffix)
    /\ SubSeq(s, Len(s) - Len(suffix) + 1, Len(s)) = suffix

\* String.prototype.replace(pattern, '') with a string pattern: removes the
\* first occurrence only
replaceFirst(s, pat) ==
    IF ~includes(s, pat) THEN s
    ELSE LET i == CHOOSE k \in 1..(Len(s) - Len(pat) + 1) :
                      /\ SubSeq(s, k, k + Len(pat) - 1) = pat
                      /\ \A j \in 1..(k - 1) : SubSeq(s, j, j + Len(pat) - 1) # pat
         IN SubSeq(s, 1, i - 1) \o SubSeq(s, i + Len(pat), Len(s))

(***************************************************************************)
(* Records (Token)                                                         *)
(***************************************************************************)
\* the nine boolean risk flags and the five optional text fields of a scan
RiskFlags ==
    {"gpIsProxy", "gpIsMintable", "gpHasProxyCalls", "gpCannotBuy",
     "gpCannotSellAll", "gpTradingCooldown", "gpTransferPausable",
     "gpSlippageModifiable", "gpHiddenOwner"}
OptionalFields ==
    {"gpTrustList", "gpOtherPotentialRisks", "gpHolders", "gpLpHolders",
     "gpDexInfo"}
s_text == <<"x">>

\* the scan part of a record: the flags in raised are true, the optional
\* fields in present hold a text, the others the empty string
ScanOf(raised, present) ==
    [k \in RiskFlags \cup OptionalFields |->
        IF k \in RiskFlags THEN k \in raised
        ELSE IF k \in present THEN s_text ELSE s_empty]

TokenA == [tokenAddress |-> <<"0", "x", "a">>, tokenName |-> <<"A", "b">>,
           tokenSymbol |-> <<"A", "B">>, tokenAgeHours |-> 1,
           gpHolderCount |-> 0, hpLiquidityAmount |-> 0,
           riskLevel |-> "safe", hpIsHoneypot |-> FALSE]
          @@ ScanOf({}, {})
TokenB == [tokenAddress |-> <<"0", "x", "b">>, tokenName |-> <<"c", "a", "t">>,
           tokenSymbol |-> <<"C", "T">>, tokenAgeHours |-> 5,
           gpHolderCount |-> 5, hpLiquidityAmount |-> 10,
           riskLevel |-> "warning", hpIsHoneypot |-> FALSE]
          @@ ScanOf({"gpIsProxy", "gpIsMintable"}, {"gpTrustList"})
TokenC == [tokenAddress |-> <<"0", "x", "c">>, tokenName |-> <<"C", "a", "b">>,
           tokenSymbol |-> <<"c", "b">>, tokenAgeHours |-> 2,
           gpHolderCount |-> 10, hpLiquidityAmount |-> 5,
           riskLevel |-> "danger", hpIsHoneypot |-> TRUE]
          @@ ScanOf(RiskFlags, OptionalFields)
TokenD == [tokenAddress |-> <<"0", "x", "D">>, tokenName |-> <<"d", "o", "g">>,
           tokenSymbol |-> <<"D", "G">>, tokenAgeHours |-> 5,
           gpHolderCount |-> 5, hpLiquidityAmount |-> 0,
           riskLevel |-> "unknown", hpIsHoneypot |-> FALSE]
          @@ ScanOf({"gpHiddenOwner"}, {"gpDexInfo"})

TokenPool == {TokenA, TokenB, TokenC, TokenD}

Addresses == {t.tokenAddress : t \in TokenPool}

\* a snapshot: identifiers are unique within it
IsSnapshot(s) == \A i, j \in 1..Len(s) : s[i].tokenAddress = s[j].tokenAddress => i = j

Snapshots ==
    UNION {{s \in [1..n -> TokenPool] : IsSnapshot(s)} : n \in 0..MaxTokens}

Range(s) == {s[i] : i \in 1..Len(s)}

(***************************************************************************)
(* Filter criteria (FilterState)                                           *)
(***************************************************************************)
DefaultMaxRecords == 50
DefaultStagnantRecordCount == 10

\* the object literal getSavedFilters returns when nothing usable is stored
DefaultFilters ==
    [minHolders |-> 0, minLiquidity |-> 0, hideHoneypots |-> FALSE,
     showOnlyHoneypots |-> FALSE, hideDanger |-> FALSE, hideWarning |-> FALSE,
     showOnlySafe |-> FALSE, searchQuery |-> s_empty, sortBy |-> s_age,
     sortDirection |-> s_desc, maxRecords |-> DefaultMaxRecords,
     hideStagnantHolders |-> FALSE, hideStagnantLiquidity |-> FALSE,
     stagnantRecordCount |-> DefaultStagnantRecordCount]

FilterKeys == DOMAIN DefaultFilters

\* property reads on a criteria object f; an absent key is undefined
Has(f, k) == k \in DOMAIN f
\* if (f.k) for a boolean property
Flag(f, k) == Has(f, k) /\ f[k]
\* if (f.searchQuery): the empty string and undefined are falsy
HasQuery(f) == Has(f, "searchQuery") /\ f["searchQuery"] # s_empty
\* variant: a record whose attribute equals the threshold is excluded too
Below_Inclusive(f, k, attr) == Has(f, k) /\ f[k] > 0 /\ attr <= f[k]

\* f.k > 0 && attr < f.k; undefined > 0 is false
Below(f, k, attr) == Has(f, k) /\ f[k] > 0 /\ attr < f[k]

\* { ...f, [k]: v }
Spread(f, k, v) == [y \in (DOMAIN f) \cup {k} |-> IF y = k THEN v ELSE f[y]]

(***************************************************************************)
(* The pipeline: filter, sort, cap (the filteredTokens memo)               *)
(***************************************************************************)
\* the text match of the search branch
MatchesQuery(token, q) ==
    LET query == toLowerCase(q) IN
    \/ includes(toLowerCase(token.tokenName), query)
    \/ includes(toLowerCase(token.tokenSymbol), query)
    \/ includes(toLowerCase(token.tokenAddress), query)

\* variant: a non-empty search decides inclusion alone
PassesFilter_SearchOverrides(token, f) ==
    IF HasQuery(f) THEN MatchesQuery(token, f["searchQuery"])
    ELSE /\ ~(Flag(f, "hideHoneypots") /\ token.hpIsHoneypot)
         /\ ~(Flag(f, "showOnlyHoneypots") /\ ~token.hpIsHoneypot)
         /\ ~(Flag(f, "hideDanger") /\ token.riskLevel = "danger")
         /\ ~(Flag(f, "hideWarning") /\ token.riskLevel = "warning")
         /\ ~(Flag(f, "showOnlySafe") /\ token.riskLevel # "safe")
         /\ ~Below(f, "minHolders", token.gpHolderCount)
         /\ ~Below(f, "minLiquidity", token.hpLiquidityAmount)

\* variant: the threshold predicates are missing
PassesFilter_NoThresholds(token, f) ==
    IF Flag(f, "hideHoneypots") /\ token.hpIsHoneypot THEN FALSE
    ELSE IF Flag(f, "showOnlyHoneypots") /\ ~token.hpIsHoneypot THEN FALSE
    ELSE IF Flag(f, "hideDanger") /\ token.riskLevel = "danger" THEN FALSE
    ELSE IF Flag(f, "hideWarning") /\ token.riskLevel = "warning" THEN FALSE
    ELSE IF Flag(f, "showOnlySafe") /\ token.riskLevel # "safe" THEN FALSE
    ELSE IF HasQuery(f) THEN MatchesQuery(token, f["searchQuery"])
    ELSE TRUE

\* variant: showOnlyHoneypots is ignored while hideHoneypots is set
PassesFilter_HideWins(token, f) ==
    IF Flag(f, "hideHoneypots") /\ token.hpIsHoneypot THEN FALSE
    ELSE IF /\ Flag(f, "showOnlyHoneypots")
            /\ ~Flag(f, "hideHoneypots")
            /\ ~token.hpIsHoneypot THEN FALSE
    ELSE IF Flag(f, "hideDanger") /\ token.riskLevel = "danger" THEN FALSE
    ELSE IF Flag(f, "hideWarning") /\ token.riskLevel = "warning" THEN FALSE
    ELSE IF Flag(f, "showOnlySafe") /\ token.riskLevel # "safe" THEN FALSE
    ELSE IF Below(f, "minHolders", token.gpHolderCount) THEN FALSE
    ELSE IF Below(f, "minLiquidity", token.hpLiquidityAmount) THEN FALSE
    ELSE IF HasQuery(f) THEN MatchesQuery(token, f["searchQuery"])
    ELSE TRUE

\* the callback of result.filter
PassesFilter(token, f) ==
    IF Flag(f, "hideHoneypots") /\ token.hpIsHoneypot THEN FALSE
    ELSE IF Flag(f, "showOnlyHoneypots") /\ ~token.hpIsHoneypot THEN FALSE
    ELSE IF Flag(f, "hideDanger") /\ token.riskLevel = "danger" THEN FALSE
    ELSE IF Flag(f, "hideWarning") /\ token.riskLevel = "warning" THEN FALSE
    ELSE IF Flag(f, "showOnlySafe") /\ token.riskLevel # "safe" THEN FALSE
    ELSE IF Below(f, "minHolders", token.gpHolderCount) THEN FALSE
    ELSE IF Below(f, "minLiquidity", token.hpLiquidityAmount) THEN FALSE
    ELSE IF HasQuery(f) THEN MatchesQuery(token, f["searchQuery"])
    ELSE TRUE

\* Array.prototype.filter
RECURSIVE FilterSeq(_, _)
FilterSeq(ts, f) ==
    IF ts = << >> THEN << >>
    ELSE IF PassesFilter(Head(ts), f) THEN <<Head(ts)>> \o FilterSeq(Tail(ts), f)
    ELSE FilterSeq(Tail(ts), f)

\* variant: an unrecognized risk category ranks below danger
getRiskScore_UnknownBelowDanger(token) ==
    CASE token.riskLevel = "safe" -> 2
      [] token.riskLevel = "warning" -> 1
      [] token.riskLevel = "danger" -> 0
      [] OTHER -> -1

\* getRiskScore: switch (token.riskLevel) with default: return 0
getRiskScore(token) ==
    CASE token.riskLevel = "safe" -> 2
      [] token.riskLevel = "warning" -> 1
      [] token.riskLevel = "danger" -> 0
      [] OTHER -> 0

\* let direction = -1; if (sortBy.endsWith('_asc')) direction = 1
SortDirection(sortBy) == IF endsWith(sortBy, s_asc) THEN 1 ELSE -1

\* field = sortBy.replace('_asc', '') on the ascending branch, else sortBy
SortFieldOf(sortBy) ==
    IF endsWith(sortBy, s_asc) THEN replaceFirst(sortBy, s_asc) ELSE sortBy

\* variant: the age comparator subtracts like the other fields
Compare_AgeLikeOthers(a, b, sortBy) ==
    LET direction == SortDirection(sortBy)
        field == SortFieldOf(sortBy)
    IN CASE field = s_age -> (a.tokenAgeHours - b.tokenAgeHours) * direction
         [] field = s_holders -> (a.gpHolderCount - b.gpHolderCount) * direction
         [] field = s_liquidity -> (a.hpLiquidityAmount - b.hpLiquidityAmount) * direction
         [] field = s_safetyScore -> (getRiskScore(a) - getRiskScore(b)) * direction
         [] OTHER -> 0

\* variant: an unrecognized field falls back to the declared default field
Compare_DefaultField(a, b, sortBy) ==
    LET direction == SortDirection(sortBy)
        field == SortFieldOf(sortBy)
    IN CASE field = s_holders -> (a.gpHolderCount - b.gpHolderCount) * direction
         [] field = s_liquidity -> (a.hpLiquidityAmount - b.hpLiquidityAmount) * direction
         [] field = s_safetyScore -> (getRiskScore(a) - getRiskScore(b)) * direction
         [] OTHER -> (b.tokenAgeHours - a.tokenAgeHours) * direction

\* the comparator passed to result.sort
Compare(a, b, sortBy) ==
    LET direction == SortDirection(sortBy)
        field == SortFieldOf(sortBy)
    IN CASE field = s_age -> (b.tokenAgeHours - a.tokenAgeHours) * direction
         [] field = s_holders -> (a.gpHolderCount - b.gpHolderCount) * direction
         [] field = s_liquidity -> (a.hpLiquidityAmount - b.hpLiquidityAmount) * direction
         [] field = s_safetyScore -> (getRiskScore(a) - getRiskScore(b)) * direction
         [] OTHER -> 0

\* Array.prototype.sort is stable: x goes behind the last element that does
\* not compare greater than it
InsertStable(sorted, x, sortBy) ==
    LET notAfter == {i \in 1..Len(sorted) : Compare(sorted[i], x, sortBy) <= 0}
        j == IF notAfter = {} THEN 0
             ELSE CHOOSE i \in notAfter : \A k \in notAfter : k <= i
    IN SubSeq(sorted, 1, j) \o <<x>> \o SubSeq(sorted, j + 1, Len(sorted))

RECURSIVE SortFrom(_, _, _)
SortFrom(sorted, rest, sortBy) ==
    IF rest = << >> THEN sorted
    ELSE CHOOSE result \in
            {SortFrom(next, tail, sortBy) :
                next \in {InsertStable(sorted, Head(rest), sortBy)},
                tail \in {Tail(rest)}} : TRUE

\* result.sort(comparator); the comparator reads f.sortBy only when called
SortTokens(ts, f) ==
    IF Len(ts) < 2 THEN ts ELSE SortFrom(<<ts[1]>>, Tail(ts), f["sortBy"])

\* variant: a non-positive end is clamped to the whole array
SliceTo_Clamped(ts, hasEnd, end) ==
    IF ~hasEnd THEN ts
    ELSE IF end <= 0 THEN ts
    ELSE IF end > Len(ts) THEN ts ELSE SubSeq(ts, 1, end)

\* Array.prototype.slice(0, end): undefined end is the length, a negative
\* end counts from the back
SliceTo(ts, hasEnd, end) ==
    LET len == Len(ts)
        k == IF ~hasEnd THEN len
             ELSE IF end < 0 THEN (IF len + end < 0 THEN 0 ELSE len + end)
             ELSE IF end > len THEN len ELSE end
    IN SubSeq(ts, 1, k)

MaxRecordsOf(f) == IF Has(f, "maxRecords") THEN f["maxRecords"] ELSE 0

\* variant: the cap is taken from the raw snapshot, before filter and sort
filteredTokens_CapFirst(ts, f) ==
    SortTokens(FilterSeq(SliceTo(ts, Has(f, "maxRecords"), MaxRecordsOf(f)), f), f)

\* the filteredTokens memo, on a criteria object f: result is assigned by
\* filter, reordered by sort and cut by slice, each array computed once
filteredTokens(ts, f) ==
    CHOOSE result \in
        {SliceTo(sorted, Has(f, "maxRecords"), MaxRecordsOf(f)) :
            sorted \in {SortTokens(passing, f) : passing \in {FilterSeq(ts, f)}}} :
        TRUE

\* currentFilters.hideHoneypots on null, or sortBy.endsWith on undefined
\* (the comparator runs only when two records are left to compare)
PipelineThrows(ts, fs) ==
    \/ fs.isNull
    \/ /\ ~Has(fs.obj, "sortBy")
       /\ Len(FilterSeq(ts, fs.obj)) >= 2

\* variant: the memo leaves out the records that are expanded
Filtered_SkipsExpanded(ts, fs) ==
    IF PipelineThrows(ts, fs) THEN << >>
    ELSE filteredTokens(SelectSeq(ts, LAMBDA t : t.tokenAddress \notin expandedTokens),
                        fs.obj)

\* variant: the memo moves the expanded records to the front
Filtered_ExpandedFirst(ts, fs) ==
    IF PipelineThrows(ts, fs) THEN << >>
    ELSE LET ft == filteredTokens(ts, fs.obj) IN
         SelectSeq(ft, LAMBDA t : t.tokenAddress \in expandedTokens)
           \o SelectSeq(ft, LAMBDA t : t.tokenAddress \notin expandedTokens)

\* filteredTokens() as read by the rest of the component
Filtered(ts, fs) ==
    IF PipelineThrows(ts, fs) THEN << >> ELSE filteredTokens(ts, fs.obj)

\* variant: the sort runs on the array of the caller
SnapshotAfter_SortedInPlace(ts, fs) ==
    IF PipelineThrows(ts, fs) THEN ts ELSE SortTokens(ts, fs.obj)

\* props.tokens after one run of the memo: let result = [...props.tokens]
\* copies the array, filter and slice return new arrays, sort reorders the
\* array filter returned
SnapshotAfter(ts, fs) == ts

(***************************************************************************)
(* Persistence: localStorage, JSON.stringify, JSON.parse                   *)
(***************************************************************************)
EmptyObj == [k \in {} |-> 0]

KeyType(k) ==
    IF k \in {"minHolders", "minLiquidity", "maxRecords", "stagnantRecordCount"}
    THEN "number"
    ELSE IF k \in {"searchQuery", "sortBy", "sortDirection"} THEN "string"
    ELSE "boolean"

\* localStorage.getItem returned null
NoItem == [kind |-> "none", empty |-> FALSE, wellFormed |-> FALSE,
           isNull |-> FALSE, members |-> EmptyObj]
\* the stored text ''
EmptyText == [kind |-> "text", empty |-> TRUE, wellFormed |-> FALSE,
              isNull |-> FALSE, members |-> EmptyObj]
\* a stored text that is not JSON
InvalidText == [kind |-> "text", empty |-> FALSE, wellFormed |-> FALSE,
                isNull |-> FALSE, members |-> EmptyObj]

\* JSON.stringify of a criteria value: one typed member per own key
JSONstringify(v) ==
    [kind |-> "text", empty |-> FALSE, wellFormed |-> TRUE, isNull |-> v.isNull,
     members |-> [k \in DOMAIN v.obj |-> [type |-> KeyType(k), value |-> v.obj[k]]]]

\* JSON.parse of a well-formed text
JSONparse(text) ==
    [isNull |-> text.isNull,
     obj |-> [k \in DOMAIN text.members |-> text.members[k].value]]

JsNull == [isNull |-> TRUE, obj |-> EmptyObj]
Obj(o) == [isNull |-> FALSE, obj |-> o]

\* getSavedFilters: the parsed value whenever the text parses, else defaults
getSavedFilters(saved) ==
    IF saved.kind = "text" /\ ~saved.empty /\ saved.wellFormed
    THEN JSONparse(saved)
    ELSE Obj(DefaultFilters)

\* variant: the updated criteria are not written back
SavedItem_NotWritten(updated, old) == old

\* localStorage.setItem(STORAGE_KEY, JSON.stringify(updated)) in updateFilters
SavedItem(updated, old) == JSONstringify(updated)

(***************************************************************************)
(* parseInt(e.currentTarget.value) || 0                                    *)
(***************************************************************************)
Digits == {"0", "1", "2", "3", "4", "5", "6", "7", "8", "9"}
DigitVal(c) ==
    CASE c = "0" -> 0 [] c = "1" -> 1 [] c = "2" -> 2 [] c = "3" -> 3
      [] c = "4" -> 4 [] c = "5" -> 5 [] c = "6" -> 6 [] c = "7" -> 7
      [] c = "8" -> 8 [] c = "9" -> 9

RECURSIVE DigitsValue(_, _)
DigitsValue(s, acc) ==
    IF s = << >> \/ Head(s) \notin Digits THEN acc
    ELSE DigitsValue(Tail(s), acc * 10 + DigitVal(Head(s)))

\* parseInt: an optional sign, then the leading digits; NaN without a digit
parseInt(s) ==
    LET neg == s # << >> /\ Head(s) = "-"
        body == IF neg THEN Tail(s) ELSE s
    IN IF body = << >> \/ Head(body) \notin Digits
       THEN [nan |-> TRUE, value |-> 0]
       ELSE [nan |-> FALSE,
             value |-> IF neg THEN 0 - DigitsValue(body, 0) ELSE DigitsValue(body, 0)]

\* x || 0: NaN and 0 are falsy
ParseIntOrZero(s) == IF parseInt(s).nan THEN 0 ELSE parseInt(s).value

(***************************************************************************)
(* Inputs                                                                  *)
(***************************************************************************)
\* snapshots handed to the mounted component
UISnapshots == {<< >>, <<TokenA, TokenB, TokenC>>, <<TokenC, TokenD>>}

\* what localStorage may hold at startup
SavedCapTwo == [DefaultFilters EXCEPT !.maxRecords = 2]
\* an object saved without sortBy, maxRecords and the unused keys
PartialObj ==
    [k \in {"minHolders", "minLiquidity", "hideHoneypots", "hideDanger",
            "hideWarning", "searchQuery"} |-> DefaultFilters[k]]
StoredPayloads ==
    {NoItem, EmptyText, InvalidText,
     JSONstringify(JsNull), JSONstringify(Obj(PartialObj)),
     JSONstringify(Obj(DefaultFilters)), JSONstringify(Obj(SavedCapTwo))}

\* values typed or chosen by the user
SearchInputs == {s_empty, <<"a", "B">>}
SortInputs == {s_age, s_holders \o s_asc}
NumberInputs == {<< >>, <<"5">>}

\* criteria the pipeline is exercised on directly
Queries == {s_empty, <<"a", "B">>, <<"X", "d">>}
Thresholds == {0, 5}
SortKeys == {s_age, s_age \o s_asc, s_liquidity, s_liquidity \o s_asc,
             s_holders, s_holders \o s_asc, s_safetyScore,
             s_safetyScore \o s_asc, s_bogus, s_bogus \o s_asc}
Caps == {-1, 0, 1, 2, DefaultMaxRecords}

FilterCriteria ==
    {[DefaultFilters EXCEPT !.hideHoneypots = hh, !.showOnlyHoneypots = so,
                            !.hideDanger = hd, !.hideWarning = hw,
                            !.showOnlySafe = ss, !.minHolders = mh,
                            !.minLiquidity = ml, !.searchQuery = q] :
        hh \in BOOLEAN, so \in BOOLEAN, hd \in BOOLEAN, hw \in BOOLEAN,
        ss \in BOOLEAN, mh \in Thresholds, ml \in Thresholds, q \in Queries}

SortCriteria ==
    {[DefaultFilters EXCEPT !.sortBy = sb, !.maxRecords = n, !.hideDanger = hd] :
        sb \in SortKeys, n \in Caps, hd \in BOOLEAN}

PipelineCriteria == FilterCriteria \cup SortCriteria

(***************************************************************************)
(* Row height estimator (estimateSize)                                     *)
(***************************************************************************)
MissingRowHeight == 60
CompactRowHeight == 84
TopPaddingHeight == 40
TopCollapseButtonHeight == 60
StatusBubblesHeight == 60
WarningHeaderHeight == 80
WarningLineHeight == 24
TradingInformationHeight == 300
ContractInformationHeight == 400
SecuritySettingsHeight == 200
HolderInformationHeight == 300
AdditionalInformationHeight == 200
DynamicSectionHeight == 40
ChartsSectionHeight == 40 + 40 + 200 + 40 + 200 + 40
HistoryTableHeight == 40 + 200 + 40
BottomCollapseButtonHeight == 60
BottomPaddingHeight == 40

\* (flag ? 1 : 0) summed over the nine flags
warningCount(token) == Cardinality({k \in RiskFlags : token[k]})

\* variant: the header of the warnings section is always counted
WarningsHeight_HeaderAlways(token) ==
    WarningHeaderHeight + warningCount(token) * WarningLineHeight

\* if (warningCount > 0) height += 80 + warningCount * 24
WarningsHeight(token) ==
    IF warningCount(token) > 0
    THEN WarningHeaderHeight + warningCount(token) * WarningLineHeight
    ELSE 0

\* if (token.field) height += 40, for the five optional fields
DynamicSectionsHeight(token) ==
    DynamicSectionHeight * Cardinality({k \in OptionalFields : token[k] # s_empty})

\* the expanded branch of estimateSize
ExpandedRowHeight(token) ==
    TopPaddingHeight + TopCollapseButtonHeight + StatusBubblesHeight
    + WarningsHeight(token)
    + TradingInformationHeight + ContractInformationHeight
    + SecuritySettingsHeight + HolderInformationHeight
    + AdditionalInformationHeight
    + DynamicSectionsHeight(token)
    + ChartsSectionHeight + HistoryTableHeight
    + BottomCollapseButtonHeight + BottomPaddingHeight

\* variant: the fixed heights of the earlier list, 60 compact, 2400 expanded
estimateSize_FixedHeights(index, ft, expanded) ==
    IF index + 1 > Len(ft) THEN 60
    ELSE IF ft[index + 1].tokenAddress \notin expanded THEN 60
    ELSE 2400

\* variant: one view for the whole list, as with a single view flag: every
\* row is tall as soon as one filtered record is expanded
estimateSize_OneViewForAll(index, ft, expanded) ==
    IF index + 1 > Len(ft) THEN MissingRowHeight
    ELSE IF \A i \in 1..Len(ft) : ft[i].tokenAddress \notin expanded
         THEN CompactRowHeight
    ELSE ExpandedRowHeight(ft[index + 1])

\* estimateSize(index), index counted from 0; ft is what filteredTokens()
\* returns and expanded what expandedTokens() returns when it is called
estimateSize(index, ft, expanded) ==
    IF index + 1 > Len(ft) THEN MissingRowHeight
    ELSE IF ft[index + 1].tokenAddress \notin expanded THEN CompactRowHeight
    ELSE ExpandedRowHeight(ft[index + 1])

(***************************************************************************)
(* The windowing engine (createVirtualizer).  The engine is a library: the *)
(* component's sources hold only the call, which fixes what the engine is  *)
(* given (count, estimateSize, overscan, scrollMargin).  What it computes  *)
(* from them follows the WindowCalculator of the specification: prefix-sum *)
(* offsets starting at the leading space, a visible range found by search, *)
(* clamped, widened by the overscan item count and clamped again, and a    *)
(* full recomputation on every event.                                      *)
(***************************************************************************)
Overscan == 5
ScrollMargin == 300

RECURSIVE SumTo(_, _)
SumTo(hs, k) == IF k = 0 THEN 0 ELSE hs[k] + SumTo(hs, k - 1)

\* the heights of indices 0..n-1, held at positions 1..n
Sizes(n, ft, expanded) == [i \in 1..n |-> estimateSize(i - 1, ft, expanded)]

\* variant: heights already held for the same number of items are kept
InvalidatedSizes_KeepCache(cached, n, ft, expanded) ==
    IF Len(cached) = n THEN cached ELSE Sizes(n, ft, expanded)

\* the heights the engine uses after an event: nothing cached survives
InvalidatedSizes(cached, n, ft, expanded) == Sizes(n, ft, expanded)

\* offset[i] for i in 0..n: the leading space plus the heights before i
Offsets(hs) == [i \in 0..Len(hs) |-> ScrollMargin + SumTo(hs, i)]

\* clamp an index to [0, n-1]
Clamp(i, n) == IF i < 0 THEN 0 ELSE IF i > n - 1 THEN n - 1 ELSE i

\* smallest index whose offset + height exceeds top
RangeStart(hs, top) ==
    LET hit == {i \in 0..(Len(hs) - 1) : Offsets(hs)[i] + hs[i + 1] > top}
    IN  IF hit = {} THEN Len(hs) - 1
        ELSE CHOOSE i \in hit : \A j \in hit : i <= j

\* smallest index whose offset exceeds bottom
RangeEnd(hs, bottom) ==
    LET hit == {i \in 0..(Len(hs) - 1) : Offsets(hs)[i] > bottom}
    IN  IF hit = {} THEN Len(hs) - 1
        ELSE CHOOSE i \in hit : \A j \in hit : i <= j

\* the ViewportWindow: an inclusive index range; empty when there is no item
Window(hs, top, height) ==
    IF Len(hs) = 0 THEN [start |-> 0, end |-> -1]
    ELSE [start |-> Clamp(RangeStart(hs, top) - Overscan, Len(hs)),
          end |-> Clamp(RangeEnd(hs, top + height) + Overscan, Len(hs))]

\* what the engine holds after measuring: heights, offsets and the window
Measure(hs, top, height) ==
    [sizes |-> hs, offsets |-> Offsets(hs),
     start |-> Window(hs, top, height).start,
     end |-> Window(hs, top, height).end]

\* virtualizer.getTotalSize(): the offset behind the last item the engine
\* knows; the call passes no trailing padding
getTotalSize(v) == v.offsets[Len(v.sizes)]

ContainerExtraHeight == 500

\* the height style of the virtual list container
ContainerHeight(v) == getTotalSize(v) + ContainerExtraHeight

\* the environment: where the page can be scrolled to, how tall it can be
ScrollPositions == {0, 1000, 40000}
ViewportHeights == {120, 700}
TallestViewport == CHOOSE h \in ViewportHeights : \A g \in ViewportHeights : g <= h

(***************************************************************************)
(* The detail card (TokenEventCard): three signals and the asynchronous    *)
(* onMount that fetches the record's history                               *)
(***************************************************************************)
s_null == "null"
s_parseFailure == "Failed to parse response as JSON"
s_networkFailure == "Failed to fetch"

\* a card as its component function leaves it: the request is on its way
NewCard ==
    [pc |-> "awaitFetch", history |-> << >>, isLoading |-> TRUE,
     error |-> s_null]

\* variant: the failure is recorded but the loading flag is not cleared
Failed_NoFinally(card, message) ==
    [card EXCEPT !.pc = "done", !.error = message]

\* catch (err) { setError(message) } finally { setIsLoading(false) }
Failed(card, message) ==
    [card EXCEPT !.pc = "done", !.error = message, !.isLoading = FALSE]

\* setHistory(data.history), then finally { setIsLoading(false) }
Loaded(card, history) ==
    [card EXCEPT !.pc = "done", !.history = history, !.isLoading = FALSE]

\* what response.text() can deliver: text that is not JSON, JSON without a
\* history array, JSON with a history array (of no or of one entry)
Bodies ==
    {[json |-> FALSE, hasHistory |-> FALSE, history |-> << >>],
     [json |-> TRUE, hasHistory |-> FALSE, history |-> << >>],
     [json |-> TRUE, hasHistory |-> TRUE, history |-> << >>],
     [json |-> TRUE, hasHistory |-> TRUE, history |-> <<"entry">>]}

\* the inner try: JSON.parse, the check of data.history, setHistory; every
\* failure is rethrown as one parse failure
Parsed(card, body) ==
    IF body.json /\ body.hasHistory THEN Loaded(card, body.history)
    ELSE Failed(card, s_parseFailure)

\* the addresses whose row is on the page and expanded: each holds a card
Shown(ft, expanded, v) ==
    {ft[i + 1].tokenAddress : i \in {j \in v.start..v.end : j + 1 <= Len(ft)}}
        \cap expanded

\* the rows are rebuilt by the map over the virtual items whenever the
\* filtered sequence or the expansion set changes: every card is new
Remounted(ft, expanded, v) == [a \in Shown(ft, expanded, v) |-> NewCard]

(***************************************************************************)
(* The component                                                           *)
(***************************************************************************)
AddressesOf(ts) == {ts[i].tokenAddress : i \in 1..Len(ts)}

\* construction of the component: signals, memo, virtualizer
Construct ==
    /\ filters = getSavedFilters(storage)
    /\ expandedTokens = {}
    /\ prevExpanded = {}
    /\ crashed = PipelineThrows(tokens, filters)
    /\ count = Len(Filtered(tokens, filters))
    /\ mutated = FALSE
    /\ lastOp = "init"
    /\ out = << >>
    /\ scrollTop = 0
    /\ virtualizer =
           Measure(Sizes(Len(Filtered(tokens, filters)),
                         Filtered(tokens, filters), {}),
                   0, viewportHeight)
    /\ cards = Remounted(Filtered(tokens, filters), {}, virtualizer)

Init ==
    /\ tokens \in UISnapshots
    /\ storage \in StoredPayloads
    /\ viewportHeight = TallestViewport
    /\ Construct

\* what the virtualizer holds once an event has been handled: it still
\* works with the count it was created with
Remeasured(ft, expanded, top) ==
    Measure(InvalidatedSizes(virtualizer.sizes, count, ft, expanded),
            top, viewportHeight)

\* variant: a criteria change drops the identifiers that are filtered out
updateFilters_Pruning(k, v) ==
    /\ ~crashed
    /\ \E updated \in {Obj(Spread(filters.obj, k, v))} :
         /\ filters' = updated
         /\ tokens' = SnapshotAfter(tokens, updated)
         /\ storage' = SavedItem(updated, storage)
         /\ crashed' = PipelineThrows(tokens, updated)
         /\ \E ft \in {Filtered(tokens, updated)} :
               /\ expandedTokens' = expandedTokens \cap AddressesOf(ft)
               /\ virtualizer' = Remeasured(ft, expandedTokens', scrollTop)
               /\ cards' = Remounted(ft, expandedTokens', virtualizer')
    /\ mutated' = TRUE
    /\ lastOp' = "updateFilters"
    /\ prevExpanded' = expandedTokens
    /\ UNCHANGED <<count, out, scrollTop, viewportHeight>>

\* variant: a criteria change waits until no card is loading
updateFilters_AwaitsCards(k, v) ==
    /\ ~crashed
    /\ \A a \in DOMAIN cards : ~cards[a].isLoading
    /\ \E updated \in {Obj(Spread(filters.obj, k, v))} :
         /\ filters' = updated
         /\ tokens' = SnapshotAfter(tokens, updated)
         /\ storage' = SavedItem(updated, storage)
         /\ crashed' = PipelineThrows(tokens, updated)
         /\ \E ft \in {Filtered(tokens, updated)} :
               /\ virtualizer' = Remeasured(ft, expandedTokens, scrollTop)
               /\ cards' = Remounted(ft, expandedTokens, virtualizer')
    /\ mutated' = TRUE
    /\ lastOp' = "updateFilters"
    /\ prevExpanded' = expandedTokens
    /\ UNCHANGED <<expandedTokens, count, out, scrollTop, viewportHeight>>

\* updateFilters(f => ({ ...f, [k]: v }))
updateFilters(k, v) ==
    /\ ~crashed
    /\ \E updated \in {Obj(Spread(filters.obj, k, v))} :
         /\ filters' = updated
         /\ tokens' = SnapshotAfter(tokens, updated)
         /\ storage' = SavedItem(updated, storage)
         /\ crashed' = PipelineThrows(tokens, updated)
         /\ \E ft \in {Filtered(tokens, updated)} :
               /\ virtualizer' = Remeasured(ft, expandedTokens, scrollTop)
               /\ cards' = Remounted(ft, expandedTokens, virtualizer')
    /\ mutated' = TRUE
    /\ lastOp' = "updateFilters"
    /\ prevExpanded' = expandedTokens
    /\ UNCHANGED <<expandedTokens, count, out, scrollTop, viewportHeight>>

OnSearchInput == \E v \in SearchInputs : updateFilters("searchQuery", v)

OnSortChange == \E v \in SortInputs : updateFilters("sortBy", v)

\* a checkbox reports the negation of what it displayed
OnHideHoneypots ==
    updateFilters("hideHoneypots", ~Flag(filters.obj, "hideHoneypots"))

OnHideWarning ==
    updateFilters("hideWarning", ~Flag(filters.obj, "hideWarning"))

OnHideDanger ==
    updateFilters("hideDanger", ~Flag(filters.obj, "hideDanger"))

OnMinHoldersInput ==
    \E s \in NumberInputs : updateFilters("minHolders", ParseIntOrZero(s))

OnMinLiquidityInput ==
    \E s \in NumberInputs : updateFilters("minLiquidity", ParseIntOrZero(s))

\* variant: the updater only ever adds
ToggledSet_AddOnly(prev, tokenAddress) == prev \cup {tokenAddress}

\* the updater passed to setExpandedTokens by toggleTokenExpansion
ToggledSet(prev, tokenAddress) ==
    IF tokenAddress \in prev THEN prev \ {tokenAddress} ELSE prev \cup {tokenAddress}

\* the indices of the rows on the page: the virtual items that still
\* hold a record (if (!token) return null)
RenderedRows(ft) ==
    {i \in virtualizer.start..virtualizer.end : i + 1 <= Len(ft)}

\* the Expand / Collapse button of a rendered row
toggleTokenExpansion ==
    /\ ~crashed
    /\ \E ft \in {Filtered(tokens, filters)} :
         \E i \in RenderedRows(ft) :
            /\ expandedTokens' = ToggledSet(expandedTokens, ft[i + 1].tokenAddress)
            /\ virtualizer' = Remeasured(ft, expandedTokens', scrollTop)
            /\ cards' = Remounted(ft, expandedTokens', virtualizer')
    /\ prevExpanded' = expandedTokens
    /\ lastOp' = "toggle"
    /\ UNCHANGED <<tokens, filters, storage, count, crashed, mutated, out,
                   scrollTop, viewportHeight>>

\* the text of the view toggle button: some materialized row holds an
\* expanded record
s_compactView == "Compact View"
s_detailedView == "Detailed View"
ViewToggleLabel(ft, expanded, v) ==
    IF Shown(ft, expanded, v) # {} THEN s_compactView ELSE s_detailedView

\* variant: collapsing removes the filtered identifiers only
ViewToggleSet_CollapseFiltered(currentTokens, prev) ==
    IF \E i \in 1..Len(currentTokens) : currentTokens[i].tokenAddress \in prev
    THEN prev \ AddressesOf(currentTokens)
    ELSE AddressesOf(currentTokens)

\* variant: expanding takes every record of the snapshot
ViewToggleSet_ExpandSnapshot(currentTokens, prev) ==
    IF \E i \in 1..Len(currentTokens) : currentTokens[i].tokenAddress \in prev
    THEN {}
    ELSE AddressesOf(tokens)

\* variant: expanding adds the filtered identifiers to what was expanded
ViewToggleSet_KeepStale(currentTokens, prev) ==
    IF \E i \in 1..Len(currentTokens) : currentTokens[i].tokenAddress \in prev
    THEN {}
    ELSE prev \cup AddressesOf(currentTokens)

\* the updater passed to setExpandedTokens by the view toggle button
ViewToggleSet(currentTokens, prev) ==
    IF \E i \in 1..Len(currentTokens) : currentTokens[i].tokenAddress \in prev
    THEN {}
    ELSE AddressesOf(currentTokens)

\* onClick of the view toggle button
ViewToggle ==
    /\ ~crashed
    /\ \E ft \in {Filtered(tokens, filters)} :
         /\ expandedTokens' = ViewToggleSet(ft, expandedTokens)
         /\ virtualizer' = Remeasured(ft, expandedTokens', scrollTop)
         /\ cards' = Remounted(ft, expandedTokens', virtualizer')
    /\ prevExpanded' = expandedTokens
    /\ lastOp' = "viewToggle"
    /\ UNCHANGED <<tokens, filters, storage, count, crashed, mutated, out,
                   scrollTop, viewportHeight>>

\* the parent hands over a new snapshot; the memo recomputes
ReplaceTokensFrom(snapshots) ==
    /\ ~crashed
    /\ \E ts \in snapshots :
         /\ ts # tokens
         /\ tokens' = SnapshotAfter(ts, filters)
         /\ crashed' = PipelineThrows(ts, filters)
         /\ \E ft \in {Filtered(ts, filters)} :
               /\ virtualizer' = Remeasured(ft, expandedTokens, scrollTop)
               /\ cards' = Remounted(ft, expandedTokens, virtualizer')
    /\ prevExpanded' = expandedTokens
    /\ lastOp' = "replace"
    /\ UNCHANGED <<filters, storage, expandedTokens, count, mutated, out,
                   scrollTop, viewportHeight>>

ReplaceTokens == ReplaceTokensFrom(UISnapshots)

\* a scroll event of the scroll element
Scroll ==
    /\ ~crashed
    /\ \E ft \in {Filtered(tokens, filters)} :
         \E top \in ScrollPositions :
            /\ top # scrollTop
            /\ scrollTop' = top
            /\ virtualizer' = Remeasured(ft, expandedTokens, top)
            /\ cards' =
                   IF <<virtualizer'.start, virtualizer'.end>>
                        = <<virtualizer.start, virtualizer.end>>
                   THEN cards
                   ELSE Remounted(ft, expandedTokens, virtualizer')
    /\ prevExpanded' = expandedTokens
    /\ lastOp' = "scroll"
    /\ UNCHANGED <<tokens, filters, storage, expandedTokens, count, crashed,
                   mutated, out, viewportHeight>>

Next ==
    \/ OnSearchInput
    \/ OnSortChange
    \/ OnHideHoneypots
    \/ OnHideWarning
    \/ OnHideDanger
    \/ OnMinHoldersInput
    \/ OnMinLiquidityInput
    \/ toggleTokenExpansion
    \/ ViewToggle
    \/ ReplaceTokens

Spec == Init /\ [][Next]_vars

(***************************************************************************)
(* The list under scrolling: longer snapshots, every scroll position and   *)
(* viewport height, the criteria left at their defaults but for two        *)
(* checkboxes                                                              *)
(***************************************************************************)
DigitChars == <<"0", "1", "2", "3", "4", "5", "6", "7", "8", "9">>

\* the record at index i of a long snapshot: the scans of the pool in
\* turn, each under an address of its own
RowToken(i) ==
    [<<TokenA, TokenB, TokenC, TokenD>>[(i % 4) + 1] EXCEPT
        !.tokenAddress = <<"0", "x", DigitChars[(i \div 10) + 1],
                           DigitChars[(i % 10) + 1]>>]

LongSnapshot(n) == [i \in 1..n |-> RowToken(i - 1)]

WindowSnapshots == {LongSnapshot(n) : n \in {0, 2, MaxItems}}

InitWindow ==
    /\ tokens \in WindowSnapshots
    /\ storage = NoItem
    /\ viewportHeight \in ViewportHeights
    /\ Construct

\* row toggles, as long as few rows are expanded
BoundedToggle ==
    /\ toggleTokenExpansion
    /\ Cardinality(expandedTokens') <= MaxExpanded

ReplaceLongTokens == ReplaceTokensFrom(WindowSnapshots)

NextWindow ==
    \/ Scroll
    \/ BoundedToggle
    \/ ViewToggle
    \/ ReplaceLongTokens
    \/ OnHideDanger
    \/ OnHideWarning

SpecWindow == InitWindow /\ [][NextWindow]_vars

(***************************************************************************)
(* The estimator over every scan: a list of one record whose nine flags    *)
(* and five optional fields take every combination                         *)
(***************************************************************************)
EstimatorSnapshots ==
    {<<ScanOf(raised, present) @@ TokenA>> :
        raised \in SUBSET RiskFlags, present \in SUBSET OptionalFields}

InitEstimator ==
    /\ tokens \in EstimatorSnapshots
    /\ storage = NoItem
    /\ viewportHeight = TallestViewport
    /\ Construct

NextEstimator ==
    \/ toggleTokenExpansion
    \/ ViewToggle

SpecEstimator == InitEstimator /\ [][NextEstimator]_vars

(***************************************************************************)
(* The detail cards of a short list: each mounted card runs its own        *)
(* history request while the list goes on being filtered, toggled and      *)
(* scrolled                                                                *)
(***************************************************************************)
\* variant: the three signals are shared by all cards
WithCard_SharedSignals(cs, a, card) ==
    [b \in DOMAIN cs |->
        [cs[b] EXCEPT !.history = card.history, !.isLoading = card.isLoading,
                      !.error = card.error]]

\* the signals written belong to the card of address a alone
WithCard(cs, a, card) == [cs EXCEPT ![a] = card]

\* one continuation of the onMount of the card of address a
CardStep(a, card, op) ==
    /\ ~crashed
    /\ cards' = WithCard(cards, a, card)
    /\ lastOp' = op
    /\ prevExpanded' = expandedTokens
    /\ UNCHANGED <<tokens, filters, storage, expandedTokens, count, crashed,
                   mutated, out, scrollTop, viewportHeight, virtualizer>>

Settled(card) == IF card.error = s_null THEN "loaded" ELSE "failed"

\* await fetch(...) resolves with a response
FetchResolves ==
    \E a \in DOMAIN cards :
        /\ cards[a].pc = "awaitFetch"
        /\ CardStep(a, [cards[a] EXCEPT !.pc = "awaitText"], "response")

\* await fetch(...) rejects
FetchRejects ==
    \E a \in DOMAIN cards :
        /\ cards[a].pc = "awaitFetch"
        /\ CardStep(a, Failed(cards[a], s_networkFailure), "failed")

\* await response.text() resolves with the body
TextArrives ==
    \E a \in DOMAIN cards, body \in Bodies :
        /\ cards[a].pc = "awaitText"
        /\ CardStep(a, Parsed(cards[a], body), Settled(Parsed(cards[a], body)))

\* await response.text() rejects
TextRejects ==
    \E a \in DOMAIN cards :
        /\ cards[a].pc = "awaitText"
        /\ CardStep(a, Failed(cards[a], s_networkFailure), "failed")

CardSnapshots == {<<TokenA, TokenC>>, <<TokenA, TokenB, TokenC>>}

InitCards ==
    /\ tokens \in CardSnapshots
    /\ storage = NoItem
    /\ viewportHeight = TallestViewport
    /\ Construct

NextCards ==
    \/ toggleTokenExpansion
    \/ ViewToggle
    \/ OnHideDanger
    \/ Scroll
    \/ FetchResolves
    \/ FetchRejects
    \/ TextArrives
    \/ TextRejects

SpecCards == InitCards /\ [][NextCards]_vars

(***************************************************************************)
(* The pipeline as a function of (snapshot, criteria)                      *)
(***************************************************************************)
InitPipeline ==
    /\ tokens \in Snapshots
    /\ filters \in {Obj(c) : c \in PipelineCriteria}
    /\ storage = NoItem
    /\ expandedTokens = {}
    /\ prevExpanded = {}
    /\ crashed = FALSE
    /\ count = 0
    /\ mutated = FALSE
    /\ lastOp = "init"
    /\ out = << >>
    /\ scrollTop = 0
    /\ viewportHeight = TallestViewport
    /\ virtualizer = Measure(<< >>, 0, TallestViewport)
    /\ cards = Remounted(<< >>, {}, virtualizer)

\* one evaluation of the memo
Recompute ==
    /\ lastOp = "init"
    /\ out' = filteredTokens(tokens, filters.obj)
    /\ tokens' = SnapshotAfter(tokens, filters)
    /\ lastOp' = "recompute"
    /\ UNCHANGED <<filters, storage, expandedTokens, prevExpanded,
                   count, crashed, mutated, scrollTop, viewportHeight,
                   virtualizer, cards>>

NextPipeline == Recompute

SpecPipeline == InitPipeline /\ [][NextPipeline]_vars

(***************************************************************************)
(* Vocabulary of the properties, stated on the records themselves          *)
(***************************************************************************)
Done == lastOp = "recompute"
Crit == filters.obj

Min(a, b) == IF a < b THEN a ELSE b
Max(a, b) == IF a > b THEN a ELSE b

\* field contains q, ignoring case
ContainsCI(field, q) ==
    \E i \in 0..(Len(field) - Len(q)) :
        \A j \in 1..Len(q) : LowerChar(field[i + j]) = LowerChar(q[j])

TextMatches(t, q) ==
    \/ ContainsCI(t.tokenName, q)
    \/ ContainsCI(t.tokenSymbol, q)
    \/ ContainsCI(t.tokenAddress, q)

\* t passes every enabled toggle and threshold of the complete criteria c
EnabledPredicatesPass(t, c) ==
    /\ c.hideHoneypots => ~t.hpIsHoneypot
    /\ c.showOnlyHoneypots => t.hpIsHoneypot
    /\ c.hideDanger => t.riskLevel # "danger"
    /\ c.hideWarning => t.riskLevel # "warning"
    /\ c.showOnlySafe => t.riskLevel = "safe"
    /\ c.minHolders > 0 => t.gpHolderCount >= c.minHolders
    /\ c.minLiquidity > 0 => t.hpLiquidityAmount >= c.minLiquidity

\* the records of the snapshot the criteria let through
Passing ==
    {t \in Range(tokens) :
        /\ EnabledPredicatesPass(t, Crit)
        /\ Crit.searchQuery # s_empty => TextMatches(t, Crit.searchQuery)}

IndexIn(ts, t) == CHOOSE i \in 1..Len(ts) : ts[i] = t

AgesOf(ts) == [i \in 1..Len(ts) |-> ts[i].tokenAgeHours]
NonDecreasing(a) == \A i, j \in 1..Len(a) : i < j => a[i] <= a[j]
NonIncreasing(a) == \A i, j \in 1..Len(a) : i < j => a[i] >= a[j]

\* seq holds distinct passing records, ordered by the comparator, and no
\* record left out would come before a record kept (ties: snapshot order)
IsSortedPrefixOfPassing(seq) ==
    /\ Range(seq) \subseteq Passing
    /\ Cardinality(Range(seq)) = Len(seq)
    /\ \A i, j \in 1..Len(seq) : i < j =>
          /\ Compare(seq[i], seq[j], Crit.sortBy) <= 0
          /\ Compare(seq[i], seq[j], Crit.sortBy) = 0 =>
                 IndexIn(tokens, seq[i]) < IndexIn(tokens, seq[j])
    /\ \A x \in Range(seq) : \A y \in Passing \ Range(seq) :
          /\ Compare(x, y, Crit.sortBy) <= 0
          /\ Compare(x, y, Crit.sortBy) = 0 =>
                 IndexIn(tokens, x) < IndexIn(tokens, y)

\* the sort key without a trailing _asc
BaseField(sortBy) ==
    IF endsWith(sortBy, s_asc) THEN SubSeq(sortBy, 1, Len(sortBy) - Len(s_asc))
    ELSE sortBy

Unrecognized(sortBy) ==
    BaseField(sortBy) \notin {s_age, s_holders, s_liquidity, s_safetyScore}

(***************************************************************************)
(* C1 (as stated): with a non-empty search query and a cap that drops      *)
(* nothing, the result set is exactly the records whose name, symbol or    *)
(* address contains the query, whatever the toggles and thresholds are.    *)
(* Refuted: the search branch is reached only by records that passed the   *)
(* toggles and thresholds.                                                 *)
(***************************************************************************)
C1_SearchOverridesFilters ==
    (Done /\ Crit.searchQuery # s_empty /\ Crit.maxRecords >= Len(tokens)) =>
        Range(out) = {t \in Range(tokens) : TextMatches(t, Crit.searchQuery)}

(***************************************************************************)
(* C1 (amended): with a non-empty search query and a cap that drops        *)
(* nothing, the result set is exactly the records that pass every enabled  *)
(* toggle and threshold and whose name, symbol or address contains the     *)
(* query case-insensitively.                                               *)
(***************************************************************************)
C1_SearchIsConjoined ==
    (Done /\ Crit.searchQuery # s_empty /\ Crit.maxRecords >= Len(tokens)) =>
        Range(out) = {t \in Range(tokens) :
                         /\ EnabledPredicatesPass(t, Crit)
                         /\ TextMatches(t, Crit.searchQuery)}

C1_Witness ==
    /\ Done
    /\ Crit.searchQuery # s_empty
    /\ Crit.maxRecords >= Len(tokens)
    /\ out # << >>
    /\ \E t \in Range(tokens) :
          /\ TextMatches(t, Crit.searchQuery)
          /\ ~EnabledPredicatesPass(t, Crit)
          /\ t \notin Range(out)

(***************************************************************************)
(* C2: with an empty search query a record is in the result (cap dropping  *)
(* nothing) iff it passes every enabled predicate; with all toggles false  *)
(* and both thresholds 0 the result holds every record, up to the cap.     *)
(***************************************************************************)
AllFiltersOff(c) ==
    /\ ~c.hideHoneypots /\ ~c.showOnlyHoneypots /\ ~c.hideDanger
    /\ ~c.hideWarning /\ ~c.showOnlySafe
    /\ c.minHolders = 0 /\ c.minLiquidity = 0

C2_ConjunctionOfEnabledPredicates ==
    (Done /\ Crit.searchQuery = s_empty) =>
        /\ Crit.maxRecords >= Len(tokens) =>
              Range(out) = {t \in Range(tokens) : EnabledPredicatesPass(t, Crit)}
        /\ (AllFiltersOff(Crit) /\ Crit.maxRecords > 0) =>
              /\ Range(out) \subseteq Range(tokens)
              /\ Cardinality(Range(out)) = Min(Len(tokens), Crit.maxRecords)

C2_Witness ==
    /\ Done
    /\ Crit.searchQuery = s_empty
    /\ Crit.hideWarning /\ Crit.minLiquidity > 0
    /\ out # << >>
    /\ \E t \in Range(tokens) :
          /\ t.riskLevel # "warning"
          /\ t.hpLiquidityAmount < Crit.minLiquidity
          /\ t \notin Range(out)
    /\ \E t \in Range(tokens) : t.riskLevel = "warning" /\ t \notin Range(out)

C4_CapAfterSort ==
    (Done /\ Crit.maxRecords > 0 /\ Cardinality(Passing) > Crit.maxRecords) =>
        /\ Len(out) = Crit.maxRecords
        /\ IsSortedPrefixOfPassing(out)

C4_Witness ==
    /\ Done
    /\ Crit.maxRecords > 0
    /\ Cardinality(Passing) > Crit.maxRecords
    /\ Len(out) = Crit.maxRecords
    /\ AllFiltersOff(Crit)
    /\ Range(out) # Range(SubSeq(tokens, 1, Crit.maxRecords))

(***************************************************************************)
(* C5 (as stated): with a zero or negative cap the result is the whole     *)
(* sorted filtered sequence.  Refuted: slice(0, 0) is empty and            *)
(* slice(0, -k) drops the last k records.                                  *)
(***************************************************************************)
C5_NonPositiveCapKeepsAll ==
    (Done /\ Crit.maxRecords <= 0) =>
        /\ Len(out) = Cardinality(Passing)
        /\ IsSortedPrefixOfPassing(out)

(***************************************************************************)
(* C5 (amended): with a zero or negative cap the pipeline does not raise;  *)
(* a cap of 0 gives the empty sequence and a cap of -k gives the sorted    *)
(* filtered sequence without its last k records (empty when k is at least  *)
(* its length).                                                            *)
(***************************************************************************)
C5_NonPositiveCapDropsTail ==
    (Done /\ Crit.maxRecords <= 0) =>
        /\ ~PipelineThrows(tokens, filters)
        /\ Crit.maxRecords = 0 => out = << >>
        /\ Crit.maxRecords < 0 =>
              Len(out) = Max(0, Cardinality(Passing) + Crit.maxRecords)
        /\ IsSortedPrefixOfPassing(out)

C5_Witness ==
    /\ Done
    /\ Crit.maxRecords < 0
    /\ out # << >>
    /\ Len(out) = Cardinality(Passing) + Crit.maxRecords

(***************************************************************************)
(* C6: with a sort key that names no known field, with or without the      *)
(* _asc suffix, the pipeline does not throw and the result keeps the       *)
(* filtered records in snapshot order.                                     *)
(***************************************************************************)
C6_UnknownFieldKeepsSnapshotOrder ==
    (Done /\ Unrecognized(Crit.sortBy)) =>
        /\ ~PipelineThrows(tokens, filters)
        /\ Range(out) \subseteq Passing
        /\ \A i, j \in 1..Len(out) :
              i < j => IndexIn(tokens, out[i]) < IndexIn(tokens, out[j])
        /\ \A x \in Range(out) : \A y \in Passing \ Range(out) :
              IndexIn(tokens, x) < IndexIn(tokens, y)
        /\ Crit.maxRecords >= Len(tokens) => Range(out) = Passing

C6_Witness ==
    /\ Done
    /\ Crit.sortBy = s_bogus \o s_asc
    /\ Len(out) = 3
    /\ out = tokens
    /\ ~NonDecreasing(AgesOf(out))
    /\ ~NonIncreasing(AgesOf(out))

(***************************************************************************)
(* C7 (fails on the code): at startup, when nothing is stored or the       *)
(* stored payload is malformed (unparsable, null, or an object with        *)
(* missing keys), the criteria in use are the documented defaults.         *)
(* getSavedFilters returns whatever JSON.parse yields.                     *)
(***************************************************************************)
NothingStored(item) == item.kind = "none" \/ item.empty

Malformed(item) ==
    /\ item.kind = "text"
    /\ ~item.empty
    /\ \/ ~item.wellFormed
       \/ item.isNull
       \/ DOMAIN item.members # FilterKeys

C7_MalformedPayloadGivesDefaults ==
    (lastOp = "init" /\ ~mutated /\ (NothingStored(storage) \/ Malformed(storage))) =>
        /\ ~filters.isNull
        /\ filters.obj = DefaultFilters

(***************************************************************************)
(* C8: once the user has changed the criteria at least once, the           *)
(* preference store holds the serialization of the criteria in memory:     *)
(* it is a well-formed text whose members are exactly the keys and values  *)
(* of the current criteria, and loading it gives the current criteria.     *)
(***************************************************************************)
C8_StoreHoldsCurrentCriteria ==
    mutated =>
        /\ storage.kind = "text" /\ storage.wellFormed /\ ~storage.empty
        /\ storage.isNull = filters.isNull
        /\ DOMAIN storage.members = DOMAIN filters.obj
        /\ \A k \in DOMAIN filters.obj : storage.members[k].value = filters.obj[k]
        /\ getSavedFilters(storage) = filters

C8_Witness ==
    /\ mutated
    /\ lastOp = "updateFilters"
    /\ ~filters.isNull
    /\ DOMAIN filters.obj = FilterKeys
    /\ filters.obj.searchQuery # s_empty
    /\ filters.obj.hideDanger
    /\ filters.obj.minHolders = 5
    /\ storage.members["searchQuery"].value = filters.obj.searchQuery
    /\ storage.members["minHolders"].value = 5

(***************************************************************************)
(* C9: view toggle, collapse branch: when at least one record of the       *)
(* filtered sequence is expanded, the click empties the expansion set,     *)
(* dropping the identifiers of filtered-out records as well.               *)
(***************************************************************************)
FilteredAddresses == AddressesOf(Filtered(tokens, filters))

C9_CollapseClearsEverything ==
    (lastOp = "viewToggle" /\ FilteredAddresses \cap prevExpanded # {}) =>
        expandedTokens = {}

C9_Witness ==
    /\ lastOp = "viewToggle"
    /\ FilteredAddresses \cap prevExpanded # {}
    /\ prevExpanded \ FilteredAddresses # {}
    /\ expandedTokens = {}

(***************************************************************************)
(* C10: view toggle, expand branch: when no record of the filtered         *)
(* (sorted, capped) sequence is expanded, the click makes the expansion    *)
(* set exactly the identifiers of the filtered sequence, not those of the  *)
(* whole snapshot.                                                         *)
(***************************************************************************)
C10_ExpandTargetsFilteredOnly ==
    (lastOp = "viewToggle" /\ FilteredAddresses \cap prevExpanded = {}) =>
        expandedTokens = {t.tokenAddress : t \in Range(Filtered(tokens, filters))}

C10_Witness ==
    /\ lastOp = "viewToggle"
    /\ FilteredAddresses \cap prevExpanded = {}
    /\ expandedTokens # {}
    /\ expandedTokens = FilteredAddresses
    /\ expandedTokens # AddressesOf(tokens)


(***************************************************************************)
(* C11: as stated, when the view toggle expands (no filtered record is     *)
(* expanded), every identifier that was already expanded and belongs to a  *)
(* filtered-out record is still expanded afterwards.                       *)
(***************************************************************************)
C11_ExpandKeepsFilteredOutIds ==
    (lastOp = "viewToggle" /\ FilteredAddresses \cap prevExpanded = {})
        => (prevExpanded \ FilteredAddresses) \subseteq expandedTokens

\* C11 (amended): when the view toggle expands, the identifiers that were
\* expanded before and belong to filtered-out records are all dropped: the
\* new set is built from the filtered sequence alone.
C11_ExpandDropsFilteredOutIds ==
    (lastOp = "viewToggle" /\ FilteredAddresses \cap prevExpanded = {})
        => /\ expandedTokens \cap (prevExpanded \ FilteredAddresses) = {}
           /\ FilteredAddresses \subseteq expandedTokens

C11_Witness ==
    /\ lastOp = "viewToggle"
    /\ FilteredAddresses \cap prevExpanded = {}
    /\ prevExpanded \ FilteredAddresses # {}
    /\ FilteredAddresses # {}
    /\ expandedTokens = FilteredAddresses


(***************************************************************************)
(* C12: the expansion set has no effect on filtering or sorting.  Every    *)
(* step that changes the expansion set leaves the sequence the pipeline    *)
(* returns as it was; what changes is the estimated height, of exactly the *)
(* rows whose membership changed.                                          *)
(***************************************************************************)
FlippedBy(before, after) == (before \ after) \cup (after \ before)

C13_OnlyTogglesChangeExpansion ==
    /\ lastOp = "init" => expandedTokens = {}
    /\ lastOp \in {"updateFilters", "replace", "scroll"}
          => expandedTokens = prevExpanded

C13_Witness ==
    /\ lastOp = "updateFilters"
    /\ expandedTokens # {}
    /\ expandedTokens \cap FilteredAddresses = {}
    /\ expandedTokens \subseteq AddressesOf(tokens)


(***************************************************************************)
(* C14: a row toggle flips the membership of exactly one identifier, that  *)
(* of a filtered record, and of no other; toggling the same identifier     *)
(* twice gives the original set back.                                      *)
(***************************************************************************)
C14_ToggleFlipsExactlyOne ==
    /\ lastOp = "toggle" =>
          \E id \in FilteredAddresses :
              FlippedBy(prevExpanded, expandedTokens) = {id}
    /\ \A id \in Addresses :
          /\ FlippedBy(expandedTokens, ToggledSet(expandedTokens, id)) = {id}
          /\ ToggledSet(ToggledSet(expandedTokens, id), id) = expandedTokens

C14_Witness ==
    /\ lastOp = "toggle"
    /\ expandedTokens # {}
    /\ \E id \in prevExpanded : expandedTokens = prevExpanded \ {id}


(***************************************************************************)
(* C15: every record of the filtered sequence that is not expanded has the *)
(* estimated height 84, whatever its attributes and its index; this is     *)
(* also the height the virtualizer holds for its row.                      *)
(***************************************************************************)
C15_CompactHeightIsConstant ==
    \A i \in 0..(Len(Filtered(tokens, filters)) - 1) :
        Filtered(tokens, filters)[i + 1].tokenAddress \notin expandedTokens =>
            /\ estimateSize(i, Filtered(tokens, filters), expandedTokens) = 84
            /\ i < count => virtualizer.sizes[i + 1] = 84

\* compact rows of different scans at different indices, next to an
\* expanded one
C15_Witness ==
    /\ Len(Filtered(tokens, filters)) = MaxItems
    /\ count = MaxItems
    /\ Cardinality(expandedTokens \cap FilteredAddresses) = 1
    /\ \E i, j \in 1..MaxItems :
          /\ i # j
          /\ virtualizer.sizes[i] = 84
          /\ virtualizer.sizes[j] = 84
          /\ warningCount(Filtered(tokens, filters)[i])
                # warningCount(Filtered(tokens, filters)[j])


(***************************************************************************)
(* C16: as stated, the height of an expanded record is the fixed sections  *)
(* (2500 in all) plus 40 for each non-empty optional field plus, for every *)
(* warning count from 0 to 9, the header cost 80 plus 24 per warning.      *)
(***************************************************************************)
RaisedFlags(t) == {k \in RiskFlags : t[k]}
PresentFields(t) == {k \in OptionalFields : t[k] # << >>}
ExpandedRows ==
    {i \in 0..(Len(Filtered(tokens, filters)) - 1) :
        Filtered(tokens, filters)[i + 1].tokenAddress \in expandedTokens}

C16_WarningHeaderAtEveryCount ==
    \A i \in ExpandedRows :
        LET t == Filtered(tokens, filters)[i + 1] IN
        estimateSize(i, Filtered(tokens, filters), expandedTokens)
            = 2500 + 40 * Cardinality(PresentFields(t))
                   + 80 + 24 * Cardinality(RaisedFlags(t))

\* C16 (amended): the warnings section counts, header included, only when
\* at least one flag is raised: 80 + 24 per warning for 1 to 9 warnings,
\* nothing for a record without warnings.
C16_WarningHeaderOnlyWithWarnings ==
    \A i \in ExpandedRows :
        LET t == Filtered(tokens, filters)[i + 1]
            expected ==
                2500 + 40 * Cardinality(PresentFields(t))
                + (IF RaisedFlags(t) = {} THEN 0
                   ELSE 80 + 24 * Cardinality(RaisedFlags(t)))
        IN /\ estimateSize(i, Filtered(tokens, filters), expandedTokens) = expected
           /\ i < count => virtualizer.sizes[i + 1] = expected

\* an expanded record without warnings and with every optional field
C16_Witness ==
    /\ lastOp = "toggle"
    /\ ExpandedRows = {0}
    /\ RaisedFlags(tokens[1]) = {}
    /\ PresentFields(tokens[1]) = OptionalFields
    /\ virtualizer.sizes = <<2700>>


(***************************************************************************)
(* C17: after any criteria change or dataset replacement the item count    *)
(* the virtualizer works with is the length of the current filtered        *)
(* sequence, so it holds one height per filtered record and no more.       *)
(***************************************************************************)
C17_CountFollowsFilteredLength ==
    (~crashed /\ lastOp \in {"updateFilters", "replace"}) =>
        /\ count = Len(Filtered(tokens, filters))
        /\ Len(virtualizer.sizes) = Len(Filtered(tokens, filters))


(***************************************************************************)
(* C18: after the toggle of the row at index k, the virtualizer holds for  *)
(* index k the height the estimator gives under the new expansion set, and *)
(* every offset behind k is rebuilt from the heights of the rows before it *)
(* as they are now.                                                        *)
(***************************************************************************)
ToggledRows ==
    {k \in 0..(Len(Filtered(tokens, filters)) - 1) :
        Filtered(tokens, filters)[k + 1].tokenAddress
            \in FlippedBy(prevExpanded, expandedTokens)}

C18_ToggleRemeasuresFromRow ==
    lastOp = "toggle" =>
        \A k \in ToggledRows :
            LET ft == Filtered(tokens, filters) IN
            /\ k < count
            /\ virtualizer.sizes[k + 1] = estimateSize(k, ft, expandedTokens)
            /\ \A i \in (k + 1)..count :
                  virtualizer.offsets[i] =
                      virtualizer.offsets[i - 1]
                      + estimateSize(i - 1, ft, expandedTokens)

\* row 1 of a full list has just been expanded: its height and the offsets
\* behind it have grown
C18_Witness ==
    /\ lastOp = "toggle"
    /\ count = MaxItems
    /\ ToggledRows = {1}
    /\ prevExpanded = {}
    /\ virtualizer.sizes[2] > 2500
    /\ virtualizer.offsets[1] = 384
    /\ virtualizer.offsets[MaxItems] > 2500 + 84 * (MaxItems - 1)

(***************************************************************************)
(* C19: the toggle of the row at index k changes no offset of an index     *)
(* smaller than k (nor that of k itself): with offset[i] the leading space *)
(* plus the heights of the rows before i, only the offsets behind k move.  *)
(***************************************************************************)
C19_ToggleKeepsEarlierOffsets ==
    [][lastOp' = "toggle" =>
        LET ft == Filtered(tokens, filters) IN
        \A k \in 0..(Len(ft) - 1) :
            ft[k + 1].tokenAddress \in FlippedBy(expandedTokens, expandedTokens')
            => \A i \in 0..k :
                  /\ i \in DOMAIN virtualizer.offsets
                  /\ virtualizer.offsets'[i] = virtualizer.offsets[i]]_vars

\* ten compact rows, then row 1 toggled: offset[0] and offset[1] are where
\* they were, offset[2] is not
C19_Witness ==
    /\ lastOp = "toggle"
    /\ count = MaxItems
    /\ Len(Filtered(tokens, filters)) = MaxItems
    /\ prevExpanded = {}
    /\ ToggledRows = {1}
    /\ virtualizer.offsets[0] = 300
    /\ virtualizer.offsets[1] = 300 + 84
    /\ virtualizer.offsets[2] > 300 + 84 + 84

(***************************************************************************)
(* C20: whenever the filtered sequence has n > 0 records, the window's     *)
(* start and end indices lie in [0, n-1] and start <= end, at every scroll *)
(* offset and viewport height.                                             *)
(***************************************************************************)
C20_WindowWithinFilteredSequence ==
    (~crashed /\ Len(Filtered(tokens, filters)) > 0) =>
        /\ 0 <= virtualizer.start
        /\ virtualizer.start <= virtualizer.end
        /\ virtualizer.end <= Len(Filtered(tokens, filters)) - 1


(***************************************************************************)
(* C21: in every state the height given to the virtual list container is   *)
(* the sum of the estimated heights of all records of the filtered         *)
(* sequence plus the leading space (300) and the trailing space (500).     *)
(***************************************************************************)
RECURSIVE SumOfEstimates(_, _, _)
SumOfEstimates(n, ft, expanded) ==
    IF n = 0 THEN 0
    ELSE estimateSize(n - 1, ft, expanded) + SumOfEstimates(n - 1, ft, expanded)

C21_ContainerHeightIsSumPlusPadding ==
    ~crashed =>
        ContainerHeight(virtualizer) =
            300 + SumOfEstimates(Len(Filtered(tokens, filters)),
                                 Filtered(tokens, filters), expandedTokens)
                + 500


(***************************************************************************)
(* C22: a failed history request changes the card of its own record only:  *)
(* that card gets its error and stops loading (the panel then shows the    *)
(* message); every other card, the criteria, the expansion set, the        *)
(* snapshot, the filtered sequence and the window stay as they were.       *)
(***************************************************************************)
C22_FailedFetchStaysInItsCard ==
    [][lastOp' = "failed" =>
        /\ DOMAIN cards' = DOMAIN cards
        /\ \E a \in DOMAIN cards :
              /\ cards'[a].error # s_null
              /\ ~cards'[a].isLoading
              /\ \A b \in DOMAIN cards \ {a} : cards'[b] = cards[b]
        /\ filters' = filters
        /\ expandedTokens' = expandedTokens
        /\ tokens' = tokens
        /\ Filtered(tokens, filters)' = Filtered(tokens, filters)
        /\ virtualizer' = virtualizer]_vars

\* one card has failed while another is still loading
C22_Witness ==
    /\ lastOp = "failed"
    /\ \E a, b \in DOMAIN cards :
          /\ cards[a].error # s_null
          /\ ~cards[a].isLoading
          /\ cards[b].isLoading
          /\ cards[b].error = s_null


(***************************************************************************)
(* C23: history requests never gate the list.  Whatever the cards are      *)
(* doing (waiting for the response, waiting for the body, failed, loaded), *)
(* a criteria change, the view toggle and a scroll event are enabled, a    *)
(* row toggle is enabled as soon as a row is on the page, and the window   *)
(* is the one computed from the snapshot, the criteria, the expansion set  *)
(* and the scroll position alone.                                          *)
(***************************************************************************)
C23_FetchesNeverGateTheList ==
    ~crashed =>
        /\ ENABLED OnHideDanger
        /\ ENABLED ViewToggle
        /\ ENABLED Scroll
        /\ RenderedRows(Filtered(tokens, filters)) # {}
              => ENABLED toggleTokenExpansion
        /\ virtualizer =
              Measure(Sizes(count, Filtered(tokens, filters), expandedTokens),
                      scrollTop, viewportHeight)

\* the page was scrolled while one card had failed and another was still
\* waiting for its body
C23_Witness ==
    /\ lastOp = "scroll"
    /\ \E a, b \in DOMAIN cards :
          /\ cards[a].pc = "done"
          /\ cards[a].error # s_null
          /\ cards[b].pc = "awaitText"

(***************************************************************************)
(* C24: sorting by safetyScore compares the ordinals safe = 2,             *)
(* warning = 1, danger = 0 and unrecognized = 0; with the unsuffixed       *)
(* (descending) key safe records precede warning records, which precede    *)
(* danger and unrecognized records, and danger and unrecognized records    *)
(* compare equal, so they keep their snapshot order.                       *)
(***************************************************************************)
RiskOrdinal(level) ==
    IF level = "safe" THEN 2 ELSE IF level = "warning" THEN 1 ELSE 0

C24_SafetyScoreOrdinals ==
    (Done /\ Crit.sortBy = s_safetyScore) =>
        \A i, j \in 1..Len(out) : i < j =>
            /\ RiskOrdinal(out[i].riskLevel) >= RiskOrdinal(out[j].riskLevel)
            /\ RiskOrdinal(out[i].riskLevel) = RiskOrdinal(out[j].riskLevel) =>
                   IndexIn(tokens, out[i]) < IndexIn(tokens, out[j])

C24_Witness ==
    /\ Done
    /\ Crit.sortBy = s_safetyScore
    /\ tokens = <<TokenD, TokenC, TokenA>>
    /\ out = <<TokenA, TokenD, TokenC>>

(***************************************************************************)
(* C25: a minHolders or minLiquidity threshold of 0 imposes no constraint  *)
(* (a record whose attribute is 0 passes it); a threshold t > 0 excludes   *)
(* exactly the records whose attribute is strictly less than t, so a       *)
(* record whose attribute equals t passes.  Stated on the records that     *)
(* pass the toggles and the search, under a cap that drops nothing.        *)
(***************************************************************************)
PassesTogglesAndSearch(t, c) ==
    /\ c.hideHoneypots => ~t.hpIsHoneypot
    /\ c.showOnlyHoneypots => t.hpIsHoneypot
    /\ c.hideDanger => t.riskLevel # "danger"
    /\ c.hideWarning => t.riskLevel # "warning"
    /\ c.showOnlySafe => t.riskLevel = "safe"
    /\ c.searchQuery # s_empty => TextMatches(t, c.searchQuery)

StrictlyBelow(attr, threshold) == threshold > 0 /\ attr < threshold

C25_ThresholdExcludesStrictlyBelow ==
    (Done /\ Crit.maxRecords >= Len(tokens)) =>
        \A t \in Range(tokens) : PassesTogglesAndSearch(t, Crit) =>
            /\ t \notin Range(out) <=>
                   \/ StrictlyBelow(t.gpHolderCount, Crit.minHolders)
                   \/ StrictlyBelow(t.hpLiquidityAmount, Crit.minLiquidity)
            /\ (Crit.minHolders = 0 /\ Crit.minLiquidity = 0) => t \in Range(out)
            /\ (/\ Crit.minHolders \in {0, t.gpHolderCount}
                /\ Crit.minLiquidity \in {0, t.hpLiquidityAmount})
                   => t \in Range(out)

C25_Witness ==
    /\ Done
    /\ Crit.minHolders = 5
    /\ Crit.minLiquidity = 0
    /\ tokens = <<TokenA, TokenB, TokenD>>
    /\ out = <<TokenB, TokenD>>

SomeFilteredExpanded(ft, expanded) ==
    \E i \in 1..Len(ft) : ft[i].tokenAddress \in expanded

C27_LabelAgreesWithClick ==
    (~crashed /\ count = Len(Filtered(tokens, filters))) =>
        LET ft == Filtered(tokens, filters) IN
        /\ ViewToggleLabel(ft, expandedTokens, virtualizer) = s_compactView
              <=> SomeFilteredExpanded(ft, expandedTokens)
        /\ SomeFilteredExpanded(ft, expandedTokens)
              <=> (ft # << >> /\ ViewToggleSet(ft, expandedTokens) = {})

HistoryOutcome(card) == card.error = s_null
ErrorOutcome(card) == card.error # s_null /\ card.history = << >>
RequestSteps == {"response", "failed", "loaded"}

\* every card of cs is loading with neither outcome, or settled one way
SettledOneWay(cs) ==
    \A a \in DOMAIN cs :
        /\ cs[a].pc = "done" =>
              /\ ~cs[a].isLoading
              /\ HistoryOutcome(cs[a]) # ErrorOutcome(cs[a])
        /\ cs[a].pc # "done" =>
              /\ cs[a].isLoading
              /\ cs[a].error = s_null
              /\ cs[a].history = << >>
        /\ ~(cs[a].error # s_null /\ cs[a].history # << >>)

C29_CardSettlesOneWay ==
    [][/\ SettledOneWay(cards)
       /\ SettledOneWay(cards')
       /\ lastOp' \in RequestSteps =>
             /\ DOMAIN cards' = DOMAIN cards
             /\ \A a \in DOMAIN cards :
                   ~cards[a].isLoading => cards'[a] = cards[a]]_vars

\* on one page a card has loaded a history entry and another has failed
C29_Witness ==
    \E a, b \in DOMAIN cards :
        /\ cards[a].pc = "done"
        /\ cards[a].history # << >>
        /\ cards[a].error = s_null
        /\ cards[b].pc = "done"
        /\ cards[b].error # s_null
        /\ cards[b].history = << >>
        /\ lastOp \in RequestSteps

(***************************************************************************)
(* C30: with an empty search query, hideHoneypots together with            *)
(* showOnlyHoneypots yields an empty result for every snapshot, and        *)
(* showOnlySafe yields only records whose risk category is safe, whatever  *)
(* hideDanger and hideWarning are: with no other constraint and a cap      *)
(* that drops nothing, exactly the safe records of the snapshot.           *)
(***************************************************************************)
SafeRecords == {t \in Range(tokens) : t.riskLevel = "safe"}

C30_ContradictoryAndSafeOnlyToggles ==
    (Done /\ Crit.searchQuery = s_empty) =>
        /\ (Crit.hideHoneypots /\ Crit.showOnlyHoneypots) => out = << >>
        /\ Crit.showOnlySafe =>
              /\ Range(out) \subseteq SafeRecords
              /\ (/\ ~Crit.hideHoneypots
                  /\ ~Crit.showOnlyHoneypots
                  /\ Crit.minHolders = 0
                  /\ Crit.minLiquidity = 0
                  /\ Crit.maxRecords >= Len(tokens))
                     => Range(out) = SafeRecords

\* both honeypot toggles are set on a snapshot that holds a honeypot and
\* two other records, one of them safe
C30_Witness ==
    /\ Done
    /\ Crit.searchQuery = s_empty
    /\ Crit.hideHoneypots
    /\ Crit.showOnlyHoneypots
    /\ ~Crit.showOnlySafe
    /\ tokens = <<TokenC, TokenA, TokenB>>
    /\ out = << >>


====
